---- MODULE Spec2Model ----
(***************************************************************************)
(* Soldrive dashboard client: the FileList and SharedFiles components and  *)
(* the read operations of the useSoldriveProgram hook, as state machines   *)
(* over a single-threaded event loop.  One step is one run-to-completion   *)
(* slice of the loop: a user event handler, the continuation of an await,  *)
(* or a timer callback.  The ledger program is the environment: it decides *)
(* whether a transaction, an account scan or an account fetch succeeds.    *)
(*                                                                         *)
(* The components keep their state to themselves and meet only through the *)
(* ledger, so a behaviour follows one of them: `component` is chosen in    *)
(* Init and names the instance being observed ("Hook" is a direct caller   *)
(* of the hook's read operations).                                         *)
(***************************************************************************)
EXTENDS Integers, Sequences, FiniteSets, TLC

\* ------------------------------------------------------------------ bounds
\* Reads started by the environment (wallet change, refresh prop) in flight.
MaxFetches == 1
\* Outstanding work (transactions, timers, scans) under which the user still
\* starts a mutation.
MaxOps == 2
\* Granularity of the model clock, in milliseconds.
TickMs == 500
\* The ledger clock at which the readers run (expiresAt is compared to it).
Now == 2
\* Hook calls a direct caller has in progress at once.
MaxCalls == 1
\* The createFile calls an upload flow has in progress at once.
MaxRacers == 2
\* Length of the file names an address derivation is tried on.
MaxNameLen == 2
\* Bytes of a key in a seed (32 in the program, every key alike).
KeyLen == 2

\* ------------------------------------------------------- program constants
\* setTimeout(..., 1500) after a confirmed privacy toggle.
PrivacySettleMs == 1500
\* setTimeout(() => fetchFiles(), 1000) after an AlreadyProcessed error.
AlreadyProcessedRetryMs == 1000
\* setTimeout(refresh, 1200) after a confirmed revoke.
RevokeSettleMs == 1200
\* expiresAt ? new BN(expiresAt) : null -- a grant without expiry.
NoExpiry == 0

\* ----------------------------------------------------------------- values
Null == "null"
\* The wallet identity of the user at the keyboard, and another identity.
Caller == "A"
Other == "B"

\* FileRecord accounts on the ledger, by address: owner and file name.
FileKeys == {"f1", "f2", "x1"}
FileOwner(f) == IF f = "x1" THEN Other ELSE Caller
FileName(f) == IF f = "f1" THEN "report.pdf" ELSE IF f = "f2" THEN "notes.txt" ELSE "theirs.bin"

\* SharedAccess accounts on the ledger, by address: the file record they
\* belong to, the owner field and the sharedWith field.
Grants == {"g1", "g2", "g3"}
GrantFile(g) == IF g = "g1" THEN "f1" ELSE IF g = "g2" THEN "f2" ELSE "x1"
GrantOwner(g) == FileOwner(GrantFile(g))
SharedWith(g) == IF GrantOwner(g) = Caller THEN Other ELSE Caller
ExpiryTimes == {NoExpiry, 1, 3}

\* The ledger's two bookkeeping accounts, by address: the global config and
\* the caller's user profile.
ConfigAccount == "config"
ProfileAccount == "profile"
AllAccounts == {ConfigAccount, ProfileAccount} \cup FileKeys \cup Grants

\* FileRecord.status, in the ledger's order, and the content locator.
Statuses == <<"uploading", "processing", "active">>
StatusRank(st) == CHOOSE i \in 1..Len(Statuses) : Statuses[i] = st
Locator == "bafy"
AccessLevels == {"read", "write"}

\* A grantee address string that is no base58 key: new PublicKey(...) throws.
Malformed == "not-a-key"

\* A constructor that takes any string for a key.
IsPublicKeyAlways(address) == TRUE

IsPublicKey(address) == address \in {Caller, Other}

\* -------------------------------------------------------- address derivation
\* PublicKey.toBuffer(): the bytes of a key, KeyLen of them for every key.
ToBuffer(key) == [i \in 1..KeyLen |-> key]

\* Buffer.from(fileName) for the file names of the ledger above: the string's
\* characters, cut to the first two, which tell these names apart.
Utf8(fileName) ==
  IF fileName = "report.pdf" THEN <<"r", "e">>
  ELSE IF fileName = "notes.txt" THEN <<"n", "o">>
  ELSE <<"t", "h">>

\* The file names a derivation is tried on: every string over two characters
\* up to MaxNameLen characters, the empty one included.
RECURSIVE StringsUpTo(_)
StringsUpTo(n) ==
  IF n = 0 THEN {<< >>}
  ELSE LET shorter == StringsUpTo(n - 1)
       IN shorter \cup {Append(w, c) : w \in shorter, c \in {"r", "e"}}

\* PublicKey.findProgramAddressSync(seeds, PROGRAM_ID): the address is the
\* hash of the seeds' bytes laid end to end (then the bump and the program
\* id, the same for every call).  The hash is kept as its preimage.
RECURSIVE SeedBytes(_)
SeedBytes(seeds) == IF seeds = << >> THEN << >> ELSE Head(seeds) \o SeedBytes(Tail(seeds))

findProgramAddressSync(seeds) == [hashOf |-> SeedBytes(seeds)]

\* An account a transaction does not name.
NoAddress == [hashOf |-> << >>]

\* A derivation that leaves the file name out of the seeds.
getFileRecordPDAOfOwner(owner, fileName) ==
  findProgramAddressSync(<< <<"file">>, ToBuffer(owner) >>)

\* seeds: 'file', owner.toBuffer(), Buffer.from(fileName)
getFileRecordPDA(owner, fileName) ==
  findProgramAddressSync(<< <<"file">>, ToBuffer(owner), fileName >>)

\* seeds: 'shared_access', fileRecordPDA.toBuffer(), sharedWith.toBuffer()
getSharedAccessPDA(fileRecordPDA, sharedWith) ==
  findProgramAddressSync(<< <<"shared_access">>, ToBuffer(fileRecordPDA), ToBuffer(sharedWith) >>)

\* The addresses of the ledger's accounts, and the account at an address.
FilePDA(f) == getFileRecordPDA(FileOwner(f), Utf8(FileName(f)))
GrantPDA(g) == getSharedAccessPDA(FilePDA(GrantFile(g)), SharedWith(g))
FileAt(pda) == {f \in FileKeys : FilePDA(f) = pda}
GrantAt(pda) == {g \in Grants : GrantPDA(g) = pda}

VARIABLES
  component,        \* the component instance under observation
  publicKey,        \* useWallet().publicKey: Null or an identity
  mounted,          \* whether the component instance is still mounted
  loading,          \* useState(true)
  files,            \* FileList: useState<FileRecord[]>([])
  confirmDialog,    \* FileList: the confirm dialog's {open, file, newPrivacy}
  processingFiles,  \* FileList: useState<Set<string>>
  withMe,           \* SharedFiles: useState<SharedEntry[]>([])
  iShared,          \* SharedFiles: useState<SharedEntry[]>([])
  revokingKeys,     \* SharedFiles: useState<Set<string>>
  ledgerPublic,     \* ledger: FileRecord.isPublic per file record
  ledgerActive,     \* ledger: SharedAccess.isActive per grant
  expiresAt,        \* ledger: SharedAccess.expiresAt per grant
  txs,              \* transactions submitted and not yet settled
  timers,           \* setTimeout callbacks armed and not yet run
  fetching,         \* reads in flight whose response will be applied
  cancelled,        \* FileListV1: reads in flight whose effect was cleaned up
  toast,            \* the last notification shown
  last,             \* the last request the client handled, and how
  fault,            \* the function an error was thrown out of, if any
  accounts,         \* ledger: the addresses that hold an account
  ledgerStatus,     \* ledger: FileRecord.status per file record
  ledgerLocator,    \* ledger: FileRecord.primaryStorage per file record
  ledgerLevel,      \* ledger: SharedAccess.accessLevel per grant
  calls,            \* hook calls a direct caller started, not yet returned
  finished,         \* the hook call that returned or threw last
  derived,          \* the last two address derivations, oldest first
  served            \* FileList: scan results on their way back to fetchFiles

vars == <<component, publicKey, mounted, loading, files, confirmDialog,
          processingFiles, withMe, iShared, revokingKeys, ledgerPublic,
          ledgerActive, expiresAt, txs, timers, fetching, cancelled, toast,
          last, fault, accounts, ledgerStatus, ledgerLocator, ledgerLevel,
          calls, finished, derived, served>>

fileUI == <<files, confirmDialog, processingFiles>>
sharedUI == <<withMe, iShared, revokingKeys>>
ledgerAccounts == <<accounts, ledgerStatus, ledgerLocator, ledgerLevel>>
ledger == <<ledgerPublic, ledgerActive, expiresAt, ledgerAccounts>>
hookCalls == <<calls, finished, derived>>

\* ---------------------------------------------------------------- helpers
Remove(s, i) == [j \in 1..(Len(s) - 1) |-> IF j < i THEN s[j] ELSE s[j + 1]]

Min(a, b) == IF a < b THEN a ELSE b

NoToast == [level |-> "none", title |-> "none"]
Toast(level, title) == [level |-> level, title |-> title]
Handled(fn, pending, outcome) ==
  [fn |-> fn, pending |-> pending, outcome |-> outcome, failing |-> {}]
ClosedDialog == [open |-> FALSE, file |-> Null, newPrivacy |-> FALSE]

\* Asynchronous work not yet finished.
Outstanding == Len(txs) + Len(timers) + fetching + cancelled

\* Time passes: every armed timer ages by one tick, up to its delay.
Tick ==
  /\ \E i \in 1..Len(timers) : timers[i].elapsed < timers[i].delay
  /\ timers' = [i \in 1..Len(timers) |->
                  [timers[i] EXCEPT !.elapsed = Min(timers[i].delay, timers[i].elapsed + TickMs)]]
  /\ UNCHANGED <<hookCalls, served, component, publicKey, mounted, loading, fileUI, sharedUI, ledger,
                 txs, fetching, cancelled, toast, last, fault>>

\* setTimeout's contract: the callback runs no earlier than its delay.
Due(t) == t.elapsed >= t.delay

\* The component is removed from the page.  FileListV1's effect cleanup sets
\* isMounted = false for the load it started; the other two cancel nothing.
Unmount ==
  /\ component \in {"FileList", "FileListV1", "SharedFiles"}
  /\ mounted
  /\ mounted' = FALSE
  /\ IF component = "FileListV1"
     THEN cancelled' = cancelled + fetching /\ fetching' = 0
     ELSE UNCHANGED <<fetching, cancelled>>
  /\ UNCHANGED <<hookCalls, served, component, publicKey, loading, fileUI, sharedUI, ledger, txs,
                 timers, toast, last, fault>>

\* ------------------------------------------------- useSoldriveProgram reads
\* A scan without the owner filter.
FileRecordScanAll(wallet) ==
  {[publicKey |-> f, fileName |-> FileName(f), isPublic |-> ledgerPublic[f],
    status |-> ledgerStatus[f], primaryStorage |-> ledgerLocator[f]] :
     f \in FileKeys \cap accounts}

\* account.fileRecord.all([memcmp offset 8 = wallet]): the FileRecords whose
\* owner field is the wallet, as the ledger holds them now.
FileRecordScan(wallet) ==
  {[publicKey |-> f, fileName |-> FileName(f), isPublic |-> ledgerPublic[f],
    status |-> ledgerStatus[f], primaryStorage |-> ledgerLocator[f]] :
     f \in {k \in FileKeys \cap accounts : FileOwner(k) = wallet}}

\* getUserFiles: [] without a wallet, the scan's accounts, [] when the scan
\* throws (rate limited or not).
getUserFiles(wallet, scanOk) ==
  IF wallet = Null THEN [list |-> {}, thrown |-> FALSE]
  ELSE IF scanOk THEN [list |-> FileRecordScan(wallet), thrown |-> FALSE]
  ELSE [list |-> {}, thrown |-> FALSE]

\* A join that leaves out the grants whose file record fetch fails.
JoinFilesDroppingFailures(active, failing) ==
  {[sharedAccess |-> g, accessLevel |-> ledgerLevel[g], file |-> GrantFile(g)] :
     g \in active \ failing}

\* active.map(async sa => { try { fetch(sa.account.fileRecord) } catch { file: null } })
\* under Promise.all: one entry per grant, file = null where the fetch fails.
JoinFiles(active, failing) ==
  {[sharedAccess |-> g, accessLevel |-> ledgerLevel[g],
    file |-> IF g \in failing THEN Null ELSE GrantFile(g)] : g \in active}

\* accounts.filter(a => a.account.isActive)
ActiveOnly(scanned) == {g \in scanned : ledgerActive[g]}

\* getFilesSharedWithMe: the scan matches the sharedWith field (offset 72).
getFilesSharedWithMe(wallet, scanOk, failing) ==
  IF wallet = Null THEN [list |-> {}, thrown |-> FALSE]
  ELSE IF scanOk
  THEN [list |-> JoinFiles(ActiveOnly({g \in Grants \cap accounts : SharedWith(g) = wallet}), failing),
        thrown |-> FALSE]
  ELSE [list |-> {}, thrown |-> FALSE]

\* getFilesIShared: the scan matches the owner field (offset 40).
getFilesIShared(wallet, scanOk, failing) ==
  IF wallet = Null THEN [list |-> {}, thrown |-> FALSE]
  ELSE IF scanOk
  THEN [list |-> JoinFiles(ActiveOnly({g \in Grants \cap accounts : GrantOwner(g) = wallet}), failing),
        thrown |-> FALSE]
  ELSE [list |-> {}, thrown |-> FALSE]

\* A direct caller of the three reads keeps what they return.
CallGetUserFiles(scanOk) ==
  /\ component = "Hook"
  /\ LET r == getUserFiles(publicKey, scanOk)
     IN /\ files' = r.list
        /\ fault' = IF r.thrown THEN "getUserFiles" ELSE fault
  /\ last' = Handled("getUserFiles", FALSE, IF scanOk THEN "scanned" ELSE "scan-failed")
  /\ UNCHANGED <<hookCalls, served, component, publicKey, mounted, loading, confirmDialog, processingFiles,
                 sharedUI, ledger, txs, timers, fetching, cancelled, toast>>

CallGetFilesSharedWithMe(scanOk, failing) ==
  /\ component = "Hook"
  /\ LET r == getFilesSharedWithMe(publicKey, scanOk, failing)
     IN /\ withMe' = r.list
        /\ fault' = IF r.thrown THEN "getFilesSharedWithMe" ELSE fault
  /\ last' = [Handled("getFilesSharedWithMe", FALSE, IF scanOk THEN "scanned" ELSE "scan-failed")
                EXCEPT !.failing = failing]
  /\ UNCHANGED <<hookCalls, served, component, publicKey, mounted, loading, fileUI, iShared, revokingKeys,
                 ledger, txs, timers, fetching, cancelled, toast>>

CallGetFilesIShared(scanOk, failing) ==
  /\ component = "Hook"
  /\ LET r == getFilesIShared(publicKey, scanOk, failing)
     IN /\ iShared' = r.list
        /\ fault' = IF r.thrown THEN "getFilesIShared" ELSE fault
  /\ last' = [Handled("getFilesIShared", FALSE, IF scanOk THEN "scanned" ELSE "scan-failed")
                EXCEPT !.failing = failing]
  /\ UNCHANGED <<hookCalls, served, component, publicKey, mounted, loading, fileUI, withMe, revokingKeys,
                 ledger, txs, timers, fetching, cancelled, toast>>

\* ------------------------------------------- FileList with the privacy toggle
IsFileList == component = "FileList"

\* What the component renders: the rows and the dialog exist only with a
\* wallet, after loading, and with a non-empty list.
RowsRendered == mounted /\ publicKey # Null /\ ~loading /\ files # {}

\* useEffect(() => { fetchFiles() }, [publicKey, refresh]): the wallet changes.
WalletChange ==
  /\ IsFileList /\ mounted
  /\ fetching < MaxFetches
  /\ publicKey' = IF publicKey = Null THEN Caller ELSE Null
  /\ IF publicKey' = Null
     THEN files' = {} /\ loading' = FALSE /\ fetching' = fetching
     ELSE loading' = TRUE /\ files' = files /\ fetching' = fetching + 1
  /\ UNCHANGED <<hookCalls, served, component, mounted, confirmDialog, processingFiles, sharedUI, ledger,
                 txs, timers, cancelled, toast, last, fault>>

\* The same effect, run because the refresh prop changed.
RefreshProp ==
  /\ IsFileList /\ mounted
  /\ fetching < MaxFetches
  /\ IF publicKey = Null
     THEN files' = {} /\ loading' = FALSE /\ fetching' = fetching
     ELSE loading' = TRUE /\ files' = files /\ fetching' = fetching + 1
  /\ UNCHANGED <<hookCalls, served, component, publicKey, mounted, confirmDialog, processingFiles, sharedUI,
                 ledger, txs, timers, cancelled, toast, last, fault>>

\* The answers on their way back, oldest scan first, once the answer at
\* position i (or of a fetch started after all of them) has arrived: the
\* answers of the fetches started before it are now behind a later one.
Overtaken(answers, i) ==
  [k \in 1..Len(answers) |->
     IF k < i THEN [answers[k] EXCEPT !.overtaken = TRUE] ELSE answers[k]]

\* The continuation of `await getUserFiles()` in fetchFiles: setFiles (with []
\* in the catch block), then setLoading(false) in the finally block.  Neither
\* tests that the component is still mounted.  The scan ran with the wallet of the render that
\* started it.
FetchResponse(scanOk) ==
  /\ IsFileList
  /\ fetching > Len(served)
  /\ fetching' = fetching - 1
  /\ LET r == getUserFiles(Caller, scanOk)
     IN files' = IF r.thrown THEN {} ELSE r.list
  /\ loading' = FALSE
  /\ served' = Overtaken(served, Len(served) + 1)
  /\ UNCHANGED <<hookCalls, component, publicKey, mounted, confirmDialog, processingFiles, sharedUI,
                 ledger, txs, timers, cancelled, toast, last, fault>>

\* The node has run the scan of a getUserFiles in flight; its answer, the
\* records as the ledger holds them now, is on its way back.
ScanServed ==
  /\ IsFileList
  /\ fetching > Len(served)
  /\ served' = Append(served, [list |-> getUserFiles(Caller, TRUE).list, overtaken |-> FALSE])
  /\ UNCHANGED <<hookCalls, component, publicKey, mounted, loading, fileUI, sharedUI, ledger,
                 txs, timers, fetching, cancelled, toast, last, fault>>

\* An answer on its way back arrives, in whatever order the network
\* delivers: the same continuation of fetchFiles, with the records the scan
\* saw when it ran.
ServedFetchResponse(i) ==
  /\ IsFileList
  /\ i \in 1..Len(served)
  /\ fetching' = fetching - 1
  /\ files' = served[i].list
  /\ served' = Remove(Overtaken(served, i), i)
  /\ loading' = FALSE
  /\ UNCHANGED <<hookCalls, component, publicKey, mounted, confirmDialog, processingFiles,
                 sharedUI, ledger, txs, timers, cancelled, toast, last, fault>>

\* The file still being uploaded when the list is shown, and the ledger
\* moving it on: the upload flow's registerStorage or finalizeFile is
\* confirmed.
UploadInProgress == {"f1"}

LedgerStatusAdvances(f) ==
  /\ IsFileList
  /\ f \in UploadInProgress
  /\ StatusRank(ledgerStatus[f]) < Len(Statuses)
  /\ ledgerStatus' = [ledgerStatus EXCEPT ![f] = Statuses[StatusRank(ledgerStatus[f]) + 1]]
  /\ UNCHANGED <<hookCalls, served, component, publicKey, mounted, loading, fileUI, sharedUI,
                 ledgerPublic, ledgerActive, expiresAt, accounts, ledgerLocator, ledgerLevel,
                 txs, timers, fetching, cancelled, toast, last, fault>>

\* A handler that never finds a toggle in progress.
PrivacyToggleNeverRejects(f) == FALSE

\* A handler that turns a request away only while the transaction is in
\* flight.
PrivacyToggleRejectsInFlight(f) == \E k \in 1..Len(txs) : txs[k].target = f

\* A handler that turns a request away while any file has a toggle pending.
PrivacyToggleRejectsAnyPending(f) == processingFiles # {}

\* handlePrivacyToggle's test: processingFiles.has(file.publicKey).
PrivacyToggleRejects(f) == f \in processingFiles

\* handlePrivacyToggle(file, newPrivacy), on a rendered row.  The Switch is
\* also disabled by the same test; the handler is taken as callable on any
\* rendered row, so that its own test decides.
HandlePrivacyToggle(row) ==
  /\ IsFileList /\ RowsRendered
  /\ row \in files
  /\ LET f == row.publicKey
     IN IF PrivacyToggleRejects(f)
        THEN /\ toast' = Toast("error", "Transaction in progress")
             /\ last' = Handled("handlePrivacyToggle", f \in processingFiles, "AlreadyInProgress")
             /\ UNCHANGED confirmDialog
        ELSE /\ confirmDialog' = [open |-> TRUE, file |-> f, newPrivacy |-> ~row.isPublic]
             /\ last' = Handled("handlePrivacyToggle", f \in processingFiles, "confirm")
             /\ UNCHANGED toast
  /\ UNCHANGED <<hookCalls, served, component, publicKey, mounted, loading, files, processingFiles, sharedUI,
                 ledger, txs, timers, fetching, cancelled, fault>>

\* onOpenChange(false): the dialog is dismissed.
CancelDialog ==
  /\ IsFileList /\ RowsRendered
  /\ confirmDialog.open
  /\ confirmDialog' = ClosedDialog
  /\ UNCHANGED <<hookCalls, served, component, publicKey, mounted, loading, files, processingFiles, sharedUI,
                 ledger, txs, timers, fetching, cancelled, toast, last, fault>>

\* executePrivacyToggle up to its await: close the dialog, add the file to the
\* processing set, and submit makePublic or makePrivate.
ExecutePrivacyToggle ==
  /\ IsFileList /\ RowsRendered
  /\ confirmDialog.file # Null
  /\ Outstanding < MaxOps
  /\ LET f == confirmDialog.file
     IN /\ processingFiles' = processingFiles \cup {f}
        /\ txs' = Append(txs, [op |-> IF confirmDialog.newPrivacy THEN "makePublic" ELSE "makePrivate",
                               target |-> f])
  /\ confirmDialog' = ClosedDialog
  /\ toast' = Toast("info", "Updating privacy...")
  /\ last' = Handled("executePrivacyToggle", FALSE, "submitted")
  /\ UNCHANGED <<hookCalls, served, component, publicKey, mounted, loading, files, sharedUI, ledger,
                 timers, fetching, cancelled, fault>>

\* A settle timer armed with the shorter retry delay.
PrivacySettleTimerShort(f) ==
  [kind |-> "settle", target |-> f, delay |-> AlreadyProcessedRetryMs, elapsed |-> 0]

\* The timer a confirmed toggle arms: setTimeout(() => {...}, 1500).
PrivacySettleTimer(f) ==
  [kind |-> "settle", target |-> f, delay |-> PrivacySettleMs, elapsed |-> 0]

\* The continuation of `await makePublic/makePrivate`: the ledger confirmed.
ToggleConfirmed(i) ==
  /\ IsFileList
  /\ i \in 1..Len(txs)
  /\ ledgerPublic' = [ledgerPublic EXCEPT ![txs[i].target] = (txs[i].op = "makePublic")]
  /\ toast' = Toast("success", "Success!")
  /\ timers' = Append(timers, PrivacySettleTimer(txs[i].target))
  /\ txs' = Remove(txs, i)
  /\ last' = Handled("executePrivacyToggle", FALSE, "confirmed")
  /\ UNCHANGED <<hookCalls, served, component, publicKey, mounted, loading, fileUI, sharedUI, ledgerActive,
                 expiresAt, ledgerAccounts, fetching, cancelled, fault>>

\* A catch block that handles AlreadyProcessed and rethrows the rest.
PrivacyToggleCatchRethrows(err) ==
  IF err = "AlreadyProcessed"
  THEN [toast |-> Toast("error", "Transaction Already Processed"),
        retry |-> TRUE, thrown |-> FALSE]
  ELSE [toast |-> toast, retry |-> FALSE, thrown |-> TRUE]

\* The catch block of executePrivacyToggle, by the error's message.
PrivacyToggleCatch(err) ==
  IF err = "AlreadyProcessed"
  THEN [toast |-> Toast("error", "Transaction Already Processed"),
        retry |-> TRUE, thrown |-> FALSE]
  ELSE [toast |-> Toast("error", "Transaction Failed"),
        retry |-> FALSE, thrown |-> FALSE]

\* A catch block that leaves the file in the processing set.
ProcessingKeptAfterError(f) == processingFiles

\* What the catch block does to the processing set.
ProcessingAfterError(f) == processingFiles \ {f}

\* The same await rejected: the catch block.
ToggleFailed(i, err) ==
  /\ IsFileList
  /\ i \in 1..Len(txs)
  /\ LET c == PrivacyToggleCatch(err)
     IN /\ toast' = c.toast
        /\ fault' = IF c.thrown THEN "executePrivacyToggle" ELSE fault
        /\ timers' = IF c.retry
                     THEN Append(timers, [kind |-> "retry", target |-> txs[i].target,
                                          delay |-> AlreadyProcessedRetryMs, elapsed |-> 0])
                     ELSE timers
  /\ processingFiles' = ProcessingAfterError(txs[i].target)
  /\ txs' = Remove(txs, i)
  /\ last' = Handled("executePrivacyToggle", FALSE, err)
  /\ UNCHANGED <<hookCalls, served, component, publicKey, mounted, loading, files, confirmDialog, sharedUI,
                 ledger, fetching, cancelled>>

\* A setTimeout callback of FileList runs.  It closes over the fetchFiles of
\* the render that confirmed the dialog, whose publicKey was set, so it
\* always starts a scan.
\*   settle: fetchFiles(); setProcessingFiles(delete file.publicKey)
\*   retry:  fetchFiles()
FileTimerFires(i) ==
  /\ IsFileList
  /\ i \in 1..Len(timers)
  /\ Due(timers[i])
  /\ loading' = TRUE
  /\ fetching' = fetching + 1
  /\ processingFiles' = IF timers[i].kind = "settle"
                        THEN processingFiles \ {timers[i].target}
                        ELSE processingFiles
  /\ timers' = Remove(timers, i)
  /\ UNCHANGED <<hookCalls, served, component, publicKey, mounted, files, confirmDialog, sharedUI, ledger,
                 txs, cancelled, toast, last, fault>>

\* --------------------------------------- FileListV1 (components/FileList.tsx)
IsFileListV1 == component = "FileListV1"

\* useEffect(..., [publicKey, refresh]) runs again: the cleanup of the previous
\* run sets its isMounted to false, then loadFiles starts with the new values.
V1WalletChange ==
  /\ IsFileListV1 /\ mounted
  /\ cancelled < MaxFetches
  /\ publicKey' = IF publicKey = Null THEN Caller ELSE Null
  /\ cancelled' = cancelled + fetching
  /\ IF publicKey' = Null
     THEN files' = {} /\ loading' = FALSE /\ fetching' = 0
     ELSE loading' = TRUE /\ files' = files /\ fetching' = 1
  /\ UNCHANGED <<hookCalls, served, component, mounted, confirmDialog, processingFiles, sharedUI, ledger,
                 txs, timers, toast, last, fault>>

V1RefreshProp ==
  /\ IsFileListV1 /\ mounted
  /\ cancelled < MaxFetches
  /\ cancelled' = cancelled + fetching
  /\ IF publicKey = Null
     THEN files' = {} /\ loading' = FALSE /\ fetching' = 0
     ELSE loading' = TRUE /\ files' = files /\ fetching' = 1
  /\ UNCHANGED <<hookCalls, served, component, publicKey, mounted, confirmDialog, processingFiles, sharedUI,
                 ledger, txs, timers, toast, last, fault>>

\* The continuation of `await getUserFiles()` in loadFiles while isMounted:
\* setFiles, then setLoading(false).
V1LoadResponse(scanOk) ==
  /\ IsFileListV1
  /\ fetching > 0
  /\ fetching' = fetching - 1
  /\ LET r == getUserFiles(Caller, scanOk)
     IN files' = IF r.thrown THEN {} ELSE r.list
  /\ loading' = FALSE
  /\ UNCHANGED <<hookCalls, served, component, publicKey, mounted, confirmDialog, processingFiles, sharedUI,
                 ledger, txs, timers, cancelled, toast, last, fault>>

\* The same continuation after the cleanup: every setter is skipped.
V1CancelledResponse ==
  /\ IsFileListV1
  /\ cancelled > 0
  /\ cancelled' = cancelled - 1
  /\ UNCHANGED <<hookCalls, served, component, publicKey, mounted, loading, fileUI, sharedUI, ledger, txs,
                 timers, fetching, toast, last, fault>>

\* togglePrivacy(file): a notice only, no transaction.
V1TogglePrivacy(row) ==
  /\ IsFileListV1 /\ RowsRendered
  /\ row \in files
  /\ toast' = Toast("info", "Privacy toggle")
  /\ UNCHANGED <<hookCalls, served, component, publicKey, mounted, loading, fileUI, sharedUI, ledger, txs,
                 timers, fetching, cancelled, last, fault>>

\* ------------------------------------------------------------- SharedFiles
IsSharedFiles == component = "SharedFiles"

\* The lists are rendered only with a wallet and after loading.
ListsRendered == mounted /\ publicKey # Null /\ ~loading

\* useEffect(() => { refresh() }, [publicKey?.toBase58()]): refresh returns at
\* once without a wallet, else sets loading and starts both reads.
SharedWalletChange ==
  /\ IsSharedFiles /\ mounted
  /\ fetching < MaxFetches
  /\ publicKey' = IF publicKey = Null THEN Caller ELSE Null
  /\ IF publicKey' = Null
     THEN UNCHANGED <<loading, fetching>>
     ELSE loading' = TRUE /\ fetching' = fetching + 1
  /\ UNCHANGED <<hookCalls, served, component, mounted, fileUI, sharedUI, ledger, txs, timers, cancelled,
                 toast, last, fault>>

\* The continuation of `await Promise.all([getFilesSharedWithMe(),
\* getFilesIShared()])` in refresh: setWithMe and setIShared (skipped in the
\* catch block), then setLoading(false).  None tests that the component is
\* still mounted.
RefreshResponse(okWithMe, okIShared, failing) ==
  /\ IsSharedFiles
  /\ fetching > 0
  /\ fetching' = fetching - 1
  /\ LET a == getFilesSharedWithMe(Caller, okWithMe, failing)
         b == getFilesIShared(Caller, okIShared, failing)
     IN IF a.thrown \/ b.thrown
        THEN UNCHANGED <<withMe, iShared>>
        ELSE withMe' = a.list /\ iShared' = b.list
  /\ loading' = FALSE
  /\ UNCHANGED <<hookCalls, served, component, publicKey, mounted, fileUI, revokingKeys, ledger, txs, timers,
                 cancelled, toast, last, fault>>

\* const key = `${fileName}-${sharedWith}`
RevokeKey(entry) == <<FileName(entry.file), SharedWith(entry.sharedAccess)>>

\* A handler that never finds a revoke in progress.
RevokeNeverRejects(key) == FALSE

\* handleRevoke's test: revokingKeys.has(key).
RevokeRejects(key) == key \in revokingKeys

\* handleRevoke(entry) up to its await, on an entry of the shared-by-me list.
\* The button is rendered for entries with a file and disabled by a like
\* test; the handler is taken as callable on any entry, so that its own
\* tests decide.
HandleRevoke(entry) ==
  /\ IsSharedFiles /\ ListsRendered
  /\ entry \in iShared
  /\ IF entry.file = Null
     THEN /\ toast' = Toast("error", "Cannot revoke")
          /\ last' = Handled("handleRevoke", FALSE, "no-file")
          /\ UNCHANGED <<revokingKeys, txs>>
     ELSE IF RevokeRejects(RevokeKey(entry))
     THEN /\ last' = Handled("handleRevoke", RevokeKey(entry) \in revokingKeys, "dropped")
          /\ UNCHANGED <<revokingKeys, txs, toast>>
     ELSE /\ Outstanding < MaxOps
          /\ revokingKeys' = revokingKeys \cup {RevokeKey(entry)}
          /\ toast' = Toast("info", "Revoking access...")
          /\ txs' = Append(txs, [op |-> "revokeAccess", target |-> RevokeKey(entry)])
          /\ last' = Handled("handleRevoke", RevokeKey(entry) \in revokingKeys, "submitted")
  /\ UNCHANGED <<hookCalls, served, component, publicKey, mounted, loading, fileUI, withMe, iShared, ledger,
                 timers, fetching, cancelled, fault>>

\* The timer a confirmed revoke arms: setTimeout(refresh, 1200).
RevokeSettleTimer(key) ==
  [kind |-> "refresh", target |-> key, delay |-> RevokeSettleMs, elapsed |-> 0]

\* The grant revokeAccess(fileName, sharedWith) addresses: the SharedAccess of
\* the wallet's file of that name and that grantee.
RevokedGrants(key) ==
  {g \in Grants : /\ FileOwner(GrantFile(g)) = Caller
                  /\ FileName(GrantFile(g)) = key[1]
                  /\ SharedWith(g) = key[2]}

\* The finally block of handleRevoke.
RevokingAfter(key) == revokingKeys \ {key}

\* The continuation of `await revokeAccess(...)`: the ledger confirmed.
RevokeConfirmed(i) ==
  /\ IsSharedFiles
  /\ i \in 1..Len(txs)
  /\ ledgerActive' = [g \in Grants |-> IF g \in RevokedGrants(txs[i].target) THEN FALSE
                                       ELSE ledgerActive[g]]
  /\ toast' = Toast("success", "Access revoked")
  /\ timers' = Append(timers, RevokeSettleTimer(txs[i].target))
  /\ revokingKeys' = RevokingAfter(txs[i].target)
  /\ txs' = Remove(txs, i)
  /\ last' = Handled("handleRevoke", FALSE, "confirmed")
  /\ UNCHANGED <<hookCalls, served, component, publicKey, mounted, loading, fileUI, withMe, iShared,
                 ledgerPublic, expiresAt, ledgerAccounts, fetching, cancelled, fault>>

\* The catch block of handleRevoke.
RevokeCatch(err) == [toast |-> Toast("error", "Failed to revoke"), thrown |-> FALSE]

\* The same await rejected: the catch block, then the finally block.
RevokeFailed(i) ==
  /\ IsSharedFiles
  /\ i \in 1..Len(txs)
  /\ toast' = RevokeCatch("failed").toast
  /\ fault' = IF RevokeCatch("failed").thrown THEN "handleRevoke" ELSE fault
  /\ revokingKeys' = RevokingAfter(txs[i].target)
  /\ txs' = Remove(txs, i)
  /\ last' = Handled("handleRevoke", FALSE, "failed")
  /\ UNCHANGED <<hookCalls, served, component, publicKey, mounted, loading, fileUI, withMe, iShared, ledger,
                 timers, fetching, cancelled>>

\* setTimeout(refresh, 1200) runs: the refresh of the render that handled the
\* click, whose publicKey was set, so it always starts the reads.
SharedTimerFires(i) ==
  /\ IsSharedFiles
  /\ i \in 1..Len(timers)
  /\ Due(timers[i])
  /\ loading' = TRUE
  /\ fetching' = fetching + 1
  /\ timers' = Remove(timers, i)
  /\ UNCHANGED <<hookCalls, served, component, publicKey, mounted, fileUI, sharedUI, ledger, txs, cancelled,
                 toast, last, fault>>

\* ------------------------------------------------------ the ledger program
\* The instruction a transaction carries and the accounts it names.
Tx(instr, fileRecord, sharedAccess, level, exp) ==
  [instr |-> instr, fileRecord |-> fileRecord, sharedAccess |-> sharedAccess,
   level |-> level, exp |-> exp, state |-> "sent", noop |-> FALSE]

\* Whether the program executes the instruction on the ledger as it is now.
LedgerAccepts(tx) ==
  LET fs == FileAt(tx.fileRecord) \cap accounts
      gs == GrantAt(tx.sharedAccess)
  IN CASE tx.instr = "initialize" -> ConfigAccount \notin accounts
       [] tx.instr = "createUserProfile" -> ProfileAccount \notin accounts
       [] tx.instr = "createFile" ->
            /\ {ConfigAccount, ProfileAccount} \subseteq accounts
            /\ FileAt(tx.fileRecord) # {} /\ fs = {}
       [] tx.instr = "registerStorage" -> fs # {}
       [] tx.instr = "finalizeFile" -> \E f \in fs : StatusRank(ledgerStatus[f]) >= 2
       [] tx.instr \in {"makePublic", "makePrivate"} -> fs # {}
       [] tx.instr = "grantAccess" -> fs # {} /\ gs # {}
       [] tx.instr = "revokeAccess" -> fs # {} /\ gs \cap accounts # {}
       [] OTHER -> FALSE

\* The ledger after the program has executed the instruction.
LedgerApply(tx) ==
  LET fs == FileAt(tx.fileRecord)
      gs == GrantAt(tx.sharedAccess)
  IN [accounts |->
        CASE tx.instr = "initialize" -> accounts \cup {ConfigAccount}
          [] tx.instr = "createUserProfile" -> accounts \cup {ProfileAccount}
          [] tx.instr = "createFile" -> accounts \cup fs
          [] tx.instr = "grantAccess" -> accounts \cup gs
          [] OTHER -> accounts,
      status |->
        [f \in FileKeys |->
           IF f \notin fs THEN ledgerStatus[f]
           ELSE CASE tx.instr = "createFile" -> "uploading"
                  [] tx.instr = "registerStorage" /\ ledgerStatus[f] = "uploading" -> "processing"
                  [] tx.instr = "finalizeFile" -> "active"
                  [] OTHER -> ledgerStatus[f]],
      locator |->
        [f \in FileKeys |->
           IF f \notin fs THEN ledgerLocator[f]
           ELSE CASE tx.instr = "createFile" -> Null
                  [] tx.instr = "registerStorage" -> Locator
                  [] OTHER -> ledgerLocator[f]],
      public |->
        [f \in FileKeys |->
           IF f \notin fs THEN ledgerPublic[f]
           ELSE CASE tx.instr = "createFile" -> FALSE
                  [] tx.instr = "makePublic" -> TRUE
                  [] tx.instr = "makePrivate" -> FALSE
                  [] OTHER -> ledgerPublic[f]],
      active |->
        [g \in Grants |->
           IF g \notin gs THEN ledgerActive[g]
           ELSE CASE tx.instr = "grantAccess" -> TRUE
                  [] tx.instr = "revokeAccess" -> FALSE
                  [] OTHER -> ledgerActive[g]],
      level |->
        [g \in Grants |->
           IF g \in gs /\ tx.instr = "grantAccess" THEN tx.level ELSE ledgerLevel[g]],
      expires |->
        [g \in Grants |->
           IF g \in gs /\ tx.instr = "grantAccess" THEN tx.exp ELSE expiresAt[g]]]

\* ------------------------------------------- useSoldriveProgram, call by call
MutatingOps == {"createUserProfile", "createFile", "registerStorage", "finalizeFile",
                "makePublic", "makePrivate", "grantAccess", "revokeAccess"}
ListOps == {"getUserFiles", "getFileSharedAccess", "getFilesSharedWithMe", "getFilesIShared"}

\* A call of a hook function by the render whose wallet is `publicKey`:
\*   pc       where the call waits
\*   issued   the transactions it has submitted, in order, with their fate
\*   queries  the account lookups and scans it has sent
NewCall(fn, fileName, grantee, level, exp) ==
  [fn |-> fn, wallet |-> publicKey, fileName |-> fileName, grantee |-> grantee,
   level |-> level, exp |-> exp, pc |-> "start", sawConfig |-> TRUE, sawProfile |-> TRUE,
   issued |-> << >>, queries |-> 0, outcome |-> "pending", value |-> {}]

NoCall == [NewCall("none", Null, Null, "read", NoExpiry) EXCEPT !.wallet = Null]

Throw(c, message) == [c EXCEPT !.pc = "thrown", !.outcome = message]
Return(c, outcome, value) == [c EXCEPT !.pc = "returned", !.outcome = outcome, !.value = value]
Rpc(c, tx) == [c EXCEPT !.pc = "rpc", !.issued = Append(@, tx)]
Query(c, pc) == [c EXCEPT !.pc = pc, !.queries = @ + 1]

\* A test that finds every render connected.
NotConnectedNever(c) == FALSE

\* if (!program || !wallet.publicKey) throw new Error('Wallet not connected')
NotConnected(c) == c.wallet = Null

\* createUserProfile up to `await conn.getAccountInfo(userProfilePDA)`.
createUserProfile(c) ==
  IF NotConnected(c) THEN Throw(c, "Wallet not connected")
  ELSE Query(c, "getAccountInfo")

\* The createFile transaction of createFile.
CreateFileTx(c) ==
  Tx("createFile", getFileRecordPDA(c.wallet, Utf8(c.fileName)), NoAddress, "read", NoExpiry)

\* A createUserProfile that submits whatever its lookup found.
createUserProfileUnlooked(c, existing) ==
  Rpc(c, Tx("createUserProfile", NoAddress, NoAddress, "read", NoExpiry))

\* createUserProfile after its lookup: 'already-initialized' when the profile
\* exists, else the createUserProfile transaction.  Called from createFile,
\* its return is where createFile goes on to its own transaction.
createUserProfileLookedUp(c, existing) ==
  IF existing
  THEN IF c.fn = "createFile" THEN Rpc(c, CreateFileTx(c))
       ELSE Return(c, "already-initialized", {})
  ELSE Rpc(c, Tx("createUserProfile", NoAddress, NoAddress, "read", NoExpiry))

\* createFile up to `await Promise.all([getAccountInfo(config), getAccountInfo(profile)])`.
createFile(c) ==
  IF NotConnected(c) THEN Throw(c, "Wallet not connected")
  ELSE Query(Query(c, "getAccountInfos"), "getAccountInfos")

\* createFile from `if (!profileInfo)` on: createUserProfile() when the
\* profile was absent at the lookup, else the createFile transaction.
createFileProfileStep(c) ==
  IF ~c.sawProfile THEN createUserProfile(c) ELSE Rpc(c, CreateFileTx(c))

\* createFile after both lookups: initialize when the config was absent.
createFileLookedUp(c, configInfo, profileInfo) ==
  LET d == [c EXCEPT !.sawConfig = configInfo, !.sawProfile = profileInfo]
  IN IF ~configInfo THEN Rpc(d, Tx("initialize", NoAddress, NoAddress, "read", NoExpiry))
     ELSE createFileProfileStep(d)

\* The four functions that derive the file record address and submit one
\* instruction on it.
FileInstruction(c, instr) ==
  IF NotConnected(c) THEN Throw(c, "Wallet not connected")
  ELSE Rpc(c, Tx(instr, getFileRecordPDA(c.wallet, Utf8(c.fileName)), NoAddress, "read", NoExpiry))

registerStorage(c) == FileInstruction(c, "registerStorage")

\* A finalizeFile that submits registerStorage once more.
finalizeFileAsRegister(c) == FileInstruction(c, "registerStorage")

finalizeFile(c) == FileInstruction(c, "finalizeFile")
\* A makePublic that submits its twin's instruction.
makePublicAsPrivate(c) == FileInstruction(c, "makePrivate")

makePublic(c) == FileInstruction(c, "makePublic")
makePrivate(c) == FileInstruction(c, "makePrivate")

\* const expiresAtBN = expiresAt ? new BN(expiresAt) : null
ExpiresAtBN(exp) == IF exp # 0 THEN exp ELSE NoExpiry

\* grantAccess and revokeAccess: new PublicKey(sharedWithAddress) throws on a
\* malformed address, before the addresses are derived.
grantAccess(c) ==
  IF NotConnected(c) THEN Throw(c, "Wallet not connected")
  ELSE IF ~IsPublicKey(c.grantee) THEN Throw(c, "Invalid public key input")
  ELSE LET fileRecordPDA == getFileRecordPDA(c.wallet, Utf8(c.fileName))
       IN Rpc(c, Tx("grantAccess", fileRecordPDA, getSharedAccessPDA(fileRecordPDA, c.grantee),
                    c.level, ExpiresAtBN(c.exp)))

\* A revokeAccess that derives the grant address from the owner's key.
revokeAccessOfOwner(c) ==
  IF NotConnected(c) THEN Throw(c, "Wallet not connected")
  ELSE IF ~IsPublicKey(c.grantee) THEN Throw(c, "Invalid public key input")
  ELSE LET fileRecordPDA == getFileRecordPDA(c.wallet, Utf8(c.fileName))
       IN Rpc(c, Tx("revokeAccess", fileRecordPDA, getSharedAccessPDA(fileRecordPDA, c.wallet),
                    "read", NoExpiry))

revokeAccess(c) ==
  IF NotConnected(c) THEN Throw(c, "Wallet not connected")
  ELSE IF ~IsPublicKey(c.grantee) THEN Throw(c, "Invalid public key input")
  ELSE LET fileRecordPDA == getFileRecordPDA(c.wallet, Utf8(c.fileName))
       IN Rpc(c, Tx("revokeAccess", fileRecordPDA, getSharedAccessPDA(fileRecordPDA, c.grantee),
                    "read", NoExpiry))

\* The four list functions up to their scan: [] without a wallet.
ListCall(c) ==
  IF NotConnected(c) THEN Return(c, "ok", {}) ELSE Query(c, "scan")

\* getFileSharedAccess: the SharedAccess accounts whose fileRecord field
\* (offset 8) is the address of the wallet's file of that name; [] when the
\* scan throws.
getFileSharedAccess(wallet, fileName, scanOk) ==
  IF wallet = Null \/ ~scanOk THEN {}
  ELSE {g \in Grants \cap accounts : FilePDA(GrantFile(g)) = getFileRecordPDA(wallet, Utf8(fileName))}

\* The call after the synchronous part of the function it names.
Invoked(c) ==
  CASE c.fn = "createUserProfile" -> createUserProfile(c)
    [] c.fn = "createFile" -> createFile(c)
    [] c.fn = "registerStorage" -> registerStorage(c)
    [] c.fn = "finalizeFile" -> finalizeFile(c)
    [] c.fn = "makePublic" -> makePublic(c)
    [] c.fn = "makePrivate" -> makePrivate(c)
    [] c.fn = "grantAccess" -> grantAccess(c)
    [] c.fn = "revokeAccess" -> revokeAccess(c)
    [] OTHER -> ListCall(c)

\* ------------------------------------------------ direct callers of the hook
\* A caller that uses the hook without a component around it: an upload
\* flow, a privacy switch, a share dialog, and a caller of the two address
\* derivations.  Each uses the functions of its flow.
Sessions == {"Upload", "Privacy", "Share", "Derive"}
InSession == component \in Sessions

OpsOf(session) ==
  CASE session = "Upload" ->
         {"createUserProfile", "createFile", "registerStorage", "finalizeFile", "getUserFiles"}
    [] session = "Privacy" -> {"makePublic", "makePrivate", "getUserFiles"}
    [] session = "Share" ->
         {"grantAccess", "revokeAccess", "getFileSharedAccess", "getFilesSharedWithMe",
          "getFilesIShared"}
    [] OTHER -> {}

\* The arguments a function is called with: the caller's two file names, a
\* well-formed and a malformed grantee.
CallerFileNames == {FileName(f) : f \in {k \in FileKeys : FileOwner(k) = Caller}}

ArgsOf(fn) ==
  [fileName : IF fn \in {"createUserProfile", "getUserFiles", "getFilesSharedWithMe",
                         "getFilesIShared"}
              THEN {Null} ELSE CallerFileNames,
   grantee : IF fn \in {"grantAccess", "revokeAccess"} THEN {Other, Malformed} ELSE {Null},
   level : IF fn = "grantAccess" THEN AccessLevels ELSE {"read"},
   exp : {NoExpiry}]

\* The share dialog's wallet connects or changes to another identity
\* (the grantee looks at what was shared).  Calls in progress keep the wallet
\* of the render that started them.
SessionWallet(w) ==
  /\ component = "Share"
  /\ w # publicKey
  /\ publicKey' = w
  /\ UNCHANGED <<served, component, mounted, loading, fileUI, sharedUI, ledger, txs, timers,
                 fetching, cancelled, toast, last, fault, hookCalls>>

\* A hook function is called and runs to its first network request, or to
\* its end when it returns or throws before one.  The other identity only
\* reads here.
Invoke(fn, args) ==
  /\ InSession
  /\ fn \in OpsOf(component)
  /\ args \in ArgsOf(fn)
  /\ Len(calls) < MaxCalls
  /\ publicKey = Other => fn \in ListOps
  /\ LET c == Invoked(NewCall(fn, args.fileName, args.grantee, args.level, args.exp))
     IN IF c.pc \in {"thrown", "returned"}
        THEN finished' = c /\ calls' = calls
        ELSE finished' = finished /\ calls' = Append(calls, c)
  /\ UNCHANGED <<served, component, publicKey, mounted, loading, fileUI, sharedUI, ledger, txs,
                 timers, fetching, cancelled, toast, last, fault, derived>>

\* A call leaves `calls` when it has returned or thrown.
Continue(i, c) ==
  IF c.pc \in {"thrown", "returned"}
  THEN finished' = c /\ calls' = Remove(calls, i)
  ELSE finished' = finished /\ calls' = [calls EXCEPT ![i] = c]

\* conn.getAccountInfo(...) answers: the accounts as the ledger holds them.
AccountInfoReturns(i) ==
  /\ InSession
  /\ i \in 1..Len(calls)
  /\ calls[i].pc \in {"getAccountInfo", "getAccountInfos"}
  /\ Continue(i, IF calls[i].pc = "getAccountInfos"
                 THEN createFileLookedUp(calls[i], ConfigAccount \in accounts,
                                         ProfileAccount \in accounts)
                 ELSE createUserProfileLookedUp(calls[i], ProfileAccount \in accounts))
  /\ UNCHANGED <<served, component, publicKey, mounted, loading, fileUI, sharedUI, ledger, txs,
                 timers, fetching, cancelled, toast, last, fault, derived>>

\* The same request fails: no function catches it, the call throws.
AccountInfoFails(i) ==
  /\ InSession
  /\ i \in 1..Len(calls)
  /\ calls[i].pc \in {"getAccountInfo", "getAccountInfos"}
  /\ Continue(i, Throw(calls[i], "failed"))
  /\ UNCHANGED <<served, component, publicKey, mounted, loading, fileUI, sharedUI, ledger, txs,
                 timers, fetching, cancelled, toast, last, fault, derived>>

\* The ledger as it is now, in the shape of LedgerApply.
LedgerNow ==
  [accounts |-> accounts, status |-> ledgerStatus, locator |-> ledgerLocator,
   public |-> ledgerPublic, active |-> ledgerActive, level |-> ledgerLevel,
   expires |-> expiresAt]

\* The call with the fate of the transaction it waits for; a confirmed
\* transaction that leaves the ledger as it was is a no-op.
Settled(c, state) ==
  [c EXCEPT !.issued[Len(c.issued)].state = state,
            !.issued[Len(c.issued)].noop =
               (state = "confirmed" /\ LedgerApply(c.issued[Len(c.issued)]) = LedgerNow)]

\* What follows `await ....rpc()` when it resolves: createFile goes on after
\* initialize and after createUserProfile, every other function returns the
\* signature.
RpcResolved(c) ==
  LET tx == c.issued[Len(c.issued)]
      d == Settled(c, "confirmed")
  IN IF c.fn = "createFile" /\ tx.instr = "initialize" THEN createFileProfileStep(d)
     ELSE IF c.fn = "createFile" /\ tx.instr = "createUserProfile" THEN Rpc(d, CreateFileTx(d))
     ELSE Return(d, "ok", {})

\* A createFile that goes on when its initialize or createUserProfile fails.
RpcRejectedSwallowed(c, reason) ==
  LET tx == c.issued[Len(c.issued)]
      d == Settled(c, "failed")
  IN IF c.fn = "createFile" /\ tx.instr = "initialize" THEN createFileProfileStep(d)
     ELSE IF c.fn = "createFile" /\ tx.instr = "createUserProfile" THEN Rpc(d, CreateFileTx(d))
     ELSE Throw(d, reason)

\* What follows when it rejects: nothing catches, the call throws.
RpcRejected(c, reason) == Throw(Settled(c, "failed"), reason)

\* The ledger executes and confirms the transaction a call waits for.
RpcConfirmed(i) ==
  /\ InSession
  /\ i \in 1..Len(calls)
  /\ calls[i].pc = "rpc"
  /\ LET tx == calls[i].issued[Len(calls[i].issued)]
         after == LedgerApply(tx)
     IN /\ LedgerAccepts(tx)
        /\ accounts' = after.accounts
        /\ ledgerStatus' = after.status
        /\ ledgerLocator' = after.locator
        /\ ledgerPublic' = after.public
        /\ ledgerActive' = after.active
        /\ ledgerLevel' = after.level
        /\ expiresAt' = after.expires
  /\ Continue(i, RpcResolved(calls[i]))
  /\ UNCHANGED <<served, component, publicKey, mounted, loading, fileUI, sharedUI, txs, timers,
                 fetching, cancelled, toast, last, fault, derived>>

\* The transaction fails: the program rejects it, or it never reaches the
\* program.
RpcFails(i, reason) ==
  /\ InSession
  /\ i \in 1..Len(calls)
  /\ calls[i].pc = "rpc"
  /\ reason = "rejected" => ~LedgerAccepts(calls[i].issued[Len(calls[i].issued)])
  /\ Continue(i, RpcRejected(calls[i], reason))
  /\ UNCHANGED <<served, component, publicKey, mounted, loading, fileUI, sharedUI, ledger, txs,
                 timers, fetching, cancelled, toast, last, fault, derived>>

\* The scan of a list function answers or fails; the function returns.
ScanReturns(i, scanOk, failing) ==
  /\ InSession
  /\ i \in 1..Len(calls)
  /\ calls[i].pc = "scan"
  /\ LET c == calls[i]
         value == CASE c.fn = "getUserFiles" -> getUserFiles(c.wallet, scanOk).list
                    [] c.fn = "getFilesSharedWithMe" ->
                         getFilesSharedWithMe(c.wallet, scanOk, failing).list
                    [] c.fn = "getFilesIShared" -> getFilesIShared(c.wallet, scanOk, failing).list
                    [] OTHER -> getFileSharedAccess(c.wallet, c.fileName, scanOk)
     IN Continue(i, Return(c, IF scanOk THEN "ok" ELSE "scan-failed", value))
  /\ UNCHANGED <<served, component, publicKey, mounted, loading, fileUI, sharedUI, ledger, txs,
                 timers, fetching, cancelled, toast, last, fault, derived>>

\* ------------------------------------------------------------ specification
Components == {"FileList", "FileListV1", "SharedFiles", "Hook"}

\* The state after the first render and its effect: useState's initial
\* values, and the read the effect starts when a wallet is connected.  The
\* direct caller of the reads meets every ledger content of the grants; the
\* components start from one where every grant is active, g1 never expires
\* and g2 and g3 expired at time 1.
Init ==
  /\ component \in Components
  /\ publicKey \in {Null, Caller}
  /\ mounted = TRUE
  /\ files = {}
  /\ withMe = {}
  /\ iShared = {}
  /\ loading = IF component \in {"FileList", "FileListV1"} THEN publicKey # Null ELSE TRUE
  /\ fetching = IF component # "Hook" /\ publicKey # Null THEN 1 ELSE 0
  /\ cancelled = 0
  /\ confirmDialog = ClosedDialog
  /\ processingFiles = {}
  /\ revokingKeys = {}
  /\ ledgerPublic = [f \in FileKeys |-> FALSE]
  /\ ledgerActive \in IF component = "Hook" THEN [Grants -> BOOLEAN]
                      ELSE {[g \in Grants |-> TRUE]}
  /\ expiresAt \in IF component = "Hook" THEN [Grants -> ExpiryTimes]
                   ELSE {[g \in Grants |-> IF g = "g1" THEN NoExpiry ELSE 1]}
  /\ txs = << >>
  /\ timers = << >>
  /\ toast = NoToast
  /\ last = Handled("none", FALSE, "none")
  /\ fault = "none"
  /\ accounts = AllAccounts
  /\ ledgerStatus = [f \in FileKeys |-> "active"]
  /\ ledgerLocator = [f \in FileKeys |-> Locator]
  /\ ledgerLevel = [g \in Grants |-> "read"]
  /\ calls = << >>
  /\ finished = NoCall
  /\ derived = << >>
  /\ served = << >>

Next ==
  \/ Tick
  \/ Unmount
  \/ \E ok \in BOOLEAN : CallGetUserFiles(ok)
  \/ \E ok \in BOOLEAN, failing \in SUBSET Grants : CallGetFilesSharedWithMe(ok, failing)
  \/ \E ok \in BOOLEAN, failing \in SUBSET Grants : CallGetFilesIShared(ok, failing)
  \/ WalletChange
  \/ RefreshProp
  \/ \E ok \in BOOLEAN : FetchResponse(ok)
  \/ \E row \in files : HandlePrivacyToggle(row)
  \/ CancelDialog
  \/ ExecutePrivacyToggle
  \/ \E i \in 1..Len(txs) : ToggleConfirmed(i)
  \/ \E i \in 1..Len(txs), err \in {"AlreadyProcessed", "failed"} : ToggleFailed(i, err)
  \/ \E i \in 1..Len(timers) : FileTimerFires(i)
  \/ V1WalletChange
  \/ V1RefreshProp
  \/ \E ok \in BOOLEAN : V1LoadResponse(ok)
  \/ V1CancelledResponse
  \/ \E row \in files : V1TogglePrivacy(row)
  \/ SharedWalletChange
  \/ \E a, b \in BOOLEAN, failing \in SUBSET Grants : RefreshResponse(a, b, failing)
  \/ \E entry \in iShared : HandleRevoke(entry)
  \/ \E i \in 1..Len(txs) : RevokeConfirmed(i)
  \/ \E i \in 1..Len(txs) : RevokeFailed(i)
  \/ \E i \in 1..Len(timers) : SharedTimerFires(i)

Spec == Init /\ [][Next]_vars

\* Fairness of the event loop and the network: time passes, a due timer's
\* callback runs, and every submitted transaction settles one way or the other.
RevokeKeys == {<<FileName(GrantFile(g)), SharedWith(g)>> : g \in Grants}

SettlesToggle(f) ==
  \E i \in 1..Len(txs) :
    /\ IsFileList /\ txs[i].target = f
    /\ (ToggleConfirmed(i) \/ \E err \in {"AlreadyProcessed", "failed"} : ToggleFailed(i, err))

SettlesRevoke(k) ==
  \E i \in 1..Len(txs) :
    IsSharedFiles /\ txs[i].target = k /\ (RevokeConfirmed(i) \/ RevokeFailed(i))

FiresFor(f) ==
  \E i \in 1..Len(timers) : IsFileList /\ timers[i].target = f /\ FileTimerFires(i)

Fairness ==
  /\ WF_vars(Tick)
  /\ \A f \in FileKeys : WF_vars(SettlesToggle(f)) /\ WF_vars(FiresFor(f))
  /\ \A k \in RevokeKeys : WF_vars(SettlesRevoke(k))

FairSpec == Spec /\ Fairness

\* ------------------------------------ specification of FileList on a slow net
\* FileList when the answers to its scans take their time: a scan is run by
\* the node at one moment and its answer arrives at a later one, answers of
\* overlapping scans arrive in any order, and meanwhile the upload flow moves
\* the status of the file it is uploading.
LagInit ==
  /\ component = "FileList"
  /\ publicKey \in {Null, Caller}
  /\ mounted = TRUE
  /\ files = {}
  /\ withMe = {}
  /\ iShared = {}
  /\ loading = (publicKey # Null)
  /\ fetching = IF publicKey # Null THEN 1 ELSE 0
  /\ cancelled = 0
  /\ confirmDialog = ClosedDialog
  /\ processingFiles = {}
  /\ revokingKeys = {}
  /\ accounts = AllAccounts
  /\ ledgerPublic = [f \in FileKeys |-> FALSE]
  /\ ledgerStatus = [f \in FileKeys |-> IF f \in UploadInProgress THEN "uploading" ELSE "active"]
  /\ ledgerLocator = [f \in FileKeys |-> Locator]
  /\ ledgerActive = [g \in Grants |-> TRUE]
  /\ ledgerLevel = [g \in Grants |-> "read"]
  /\ expiresAt = [g \in Grants |-> NoExpiry]
  /\ txs = << >>
  /\ timers = << >>
  /\ toast = NoToast
  /\ last = Handled("none", FALSE, "none")
  /\ fault = "none"
  /\ calls = << >>
  /\ finished = NoCall
  /\ derived = << >>
  /\ served = << >>

LagNext ==
  \/ Tick
  \/ Unmount
  \/ WalletChange
  \/ RefreshProp
  \/ \E ok \in BOOLEAN : FetchResponse(ok)
  \/ ScanServed
  \/ \E i \in 1..Len(served) : ServedFetchResponse(i)
  \/ \E f \in FileKeys : LedgerStatusAdvances(f)
  \/ \E row \in files : HandlePrivacyToggle(row)
  \/ CancelDialog
  \/ ExecutePrivacyToggle
  \/ \E i \in 1..Len(txs) : ToggleConfirmed(i)
  \/ \E i \in 1..Len(txs), err \in {"AlreadyProcessed", "failed"} : ToggleFailed(i, err)
  \/ \E i \in 1..Len(timers) : FileTimerFires(i)

LagSpec == LagInit /\ [][LagNext]_vars

\* -------------------------------------------- specification of direct callers
\* The last two derivations a caller made, oldest first.
LastTwo(s) == IF Len(s) <= 2 THEN s ELSE Tail(s)

\* getFileRecordPDA(owner, fileName), called directly.
CallGetFileRecordPDA(owner, fileName) ==
  /\ component = "Derive"
  /\ derived' = LastTwo(Append(derived, [fn |-> "getFileRecordPDA",
                                         input |-> <<owner, fileName>>,
                                         address |-> getFileRecordPDA(owner, fileName)]))
  /\ UNCHANGED <<served, component, publicKey, mounted, loading, fileUI, sharedUI, ledger, txs,
                 timers, fetching, cancelled, toast, last, fault, calls, finished>>

\* getSharedAccessPDA(fileRecordPDA, sharedWith), called directly on the
\* address of a file record.
CallGetSharedAccessPDA(f, sharedWith) ==
  /\ component = "Derive"
  /\ derived' = LastTwo(Append(derived, [fn |-> "getSharedAccessPDA",
                                         input |-> <<FilePDA(f), sharedWith>>,
                                         address |-> getSharedAccessPDA(FilePDA(f), sharedWith)]))
  /\ UNCHANGED <<served, component, publicKey, mounted, loading, fileUI, sharedUI, ledger, txs,
                 timers, fetching, cancelled, toast, last, fault, calls, finished>>

\* The accounts the ledger holds when a caller starts.
InitialAccounts(session) ==
  CASE session = "Upload" -> {{}, {ConfigAccount, "x1"}}
    [] session = "Privacy" -> {AllAccounts \ Grants}
    [] session = "Share" -> {AllAccounts \ {"g1", "g2"}}
    [] OTHER -> {{}, {ConfigAccount}}

HookInit ==
  /\ component \in Sessions
  /\ publicKey \in {Null, Caller}
  /\ mounted = TRUE
  /\ loading = FALSE
  /\ files = {}
  /\ withMe = {}
  /\ iShared = {}
  /\ fetching = 0
  /\ cancelled = 0
  /\ confirmDialog = ClosedDialog
  /\ processingFiles = {}
  /\ revokingKeys = {}
  /\ accounts \in InitialAccounts(component)
  /\ ledgerPublic = [f \in FileKeys |-> f = "f2"]
  /\ ledgerStatus = [f \in FileKeys |-> "active"]
  /\ ledgerLocator = [f \in FileKeys |-> Locator]
  /\ ledgerActive = [g \in Grants |-> TRUE]
  /\ ledgerLevel = [g \in Grants |-> "read"]
  /\ expiresAt = [g \in Grants |-> NoExpiry]
  /\ txs = << >>
  /\ timers = << >>
  /\ toast = NoToast
  /\ last = Handled("none", FALSE, "none")
  /\ fault = "none"
  /\ calls = << >>
  /\ finished = NoCall
  /\ derived = << >>
  /\ served = << >>

HookNext ==
  \/ \E w \in {Caller, Other} : SessionWallet(w)
  \/ \E fn \in MutatingOps \cup ListOps : \E args \in ArgsOf(fn) : Invoke(fn, args)
  \/ \E i \in 1..Len(calls) : AccountInfoReturns(i)
  \/ \E i \in 1..Len(calls) : AccountInfoFails(i)
  \/ \E i \in 1..Len(calls) : RpcConfirmed(i)
  \/ \E i \in 1..Len(calls), reason \in {"rejected", "network"} : RpcFails(i, reason)
  \/ \E i \in 1..Len(calls), ok \in BOOLEAN, failing \in {{}, Grants} : ScanReturns(i, ok, failing)
  \/ \E owner \in {Caller, Other}, fileName \in StringsUpTo(MaxNameLen) :
       CallGetFileRecordPDA(owner, fileName)
  \/ \E f \in FileKeys, sharedWith \in {Caller, Other} : CallGetSharedAccessPDA(f, sharedWith)

HookSpec == HookInit /\ [][HookNext]_vars

\* -------------------------------------- specification of concurrent uploads
\* An upload flow that starts a createFile while others are in progress
\* (several files dropped at once): each call runs as createFile does, to its
\* two lookups.
ConcurrentCreateFile(fileName) ==
  /\ component = "Upload"
  /\ fileName \in CallerFileNames
  /\ Len(calls) < MaxRacers
  /\ LET c == Invoked(NewCall("createFile", fileName, Null, "read", NoExpiry))
     IN IF c.pc \in {"thrown", "returned"}
        THEN finished' = c /\ calls' = calls
        ELSE finished' = finished /\ calls' = Append(calls, c)
  /\ UNCHANGED <<served, component, publicKey, mounted, loading, fileUI, sharedUI, ledger, txs,
                 timers, fetching, cancelled, toast, last, fault, derived>>

\* The flow starts connected, on a ledger without the caller's profile,
\* with or without the global config.
RaceInit ==
  /\ HookInit
  /\ component = "Upload"
  /\ publicKey = Caller

RaceNext ==
  \/ \E fileName \in CallerFileNames : ConcurrentCreateFile(fileName)
  \/ \E i \in 1..Len(calls) : AccountInfoReturns(i)
  \/ \E i \in 1..Len(calls) : AccountInfoFails(i)
  \/ \E i \in 1..Len(calls) : RpcConfirmed(i)
  \/ \E i \in 1..Len(calls), reason \in {"rejected", "network"} : RpcFails(i, reason)

RaceSpec == RaceInit /\ [][RaceNext]_vars

\* ------------------------------------------------------------------- claims
TogglesInFlight(f) ==
  {i \in 1..Len(txs) : txs[i].op \in {"makePublic", "makePrivate"} /\ txs[i].target = f}

RevokesInFlight(k) ==
  {i \in 1..Len(txs) : txs[i].op = "revokeAccess" /\ txs[i].target = k}

SettleTimers(f) == {i \in 1..Len(timers) : timers[i].kind = "settle" /\ timers[i].target = f}

C2_PendingRequestIsAnnounced ==
  last.pending => /\ last.outcome = "AlreadyInProgress"
                  /\ toast = Toast("error", "Transaction in progress")

\* handleRevoke has just returned in silence on a key that is being revoked.
C2_Witness ==
  /\ last = Handled("handleRevoke", TRUE, "dropped")
  /\ \E k \in revokingKeys : Cardinality(RevokesInFlight(k)) = 1

\* C3: a target is in a pending set only while its mutation is in flight or
\* settling (so the set is empty when nothing is), and every target that is
\* pending is eventually not pending, whichever way the transaction ends.
C3_PendingSetMirrorsOutstanding ==
  /\ \A f \in processingFiles : TogglesInFlight(f) # {} \/ SettleTimers(f) # {}
  /\ \A k \in revokingKeys : RevokesInFlight(k) # {}

\* C3, with the progress it claims: the mirror above always holds, and a
\* pending file or revoke key is eventually not pending.
C3_PendingIsEventuallyCleared ==
  /\ []C3_PendingSetMirrorsOutstanding
  /\ \A f \in FileKeys : (f \in processingFiles) ~> (f \notin processingFiles)
  /\ \A k \in RevokeKeys : (k \in revokingKeys) ~> (k \notin revokingKeys)

\* A toggle has just failed with AlreadyProcessed and its file has left the
\* processing set.
C3_Witness ==
  /\ last = Handled("executePrivacyToggle", FALSE, "AlreadyProcessed")
  /\ processingFiles = {}
  /\ Len(timers) = 1

\* C4: while a revokeAccess transaction for a (fileName, grantee) key is in
\* flight, handleRevoke submits no second one for that key: at most one is
\* in flight per key at any time.
C4_OneRevokeInFlightPerKey ==
  \A k \in RevokeKeys : Cardinality(RevokesInFlight(k)) <= 1

\* A revoke is in flight and a second click on the same entry was turned away.
C4_Witness ==
  /\ last.fn = "handleRevoke" /\ last.pending
  /\ \E k \in revokingKeys : Cardinality(RevokesInFlight(k)) = 1

\* A grant is expired when it has an expiry time and that time is past.
Expired(g) == expiresAt[g] # NoExpiry /\ expiresAt[g] < Now

\* C5: the shared-with-me list never holds a grant whose expiresAt is past,
\* even when the grant is still active on the ledger.
C5_NoExpiredGrantSharedWithMe ==
  \A e \in withMe : ~Expired(e.sharedAccess)

\* C6: after a successful scan the shared-by-me list holds exactly the
\* grants that are active, not expired and owned by the caller.
C6_SharedByMeIsActiveUnexpiredOwn ==
  (last.fn = "getFilesIShared" /\ last.outcome = "scanned") =>
    {e.sharedAccess : e \in iShared} =
      {g \in Grants : GrantOwner(g) = publicKey /\ ledgerActive[g] /\ ~Expired(g)}

\* The grants the two reads join with their file records.
ActiveSharedWith(wallet) == {g \in Grants : SharedWith(g) = wallet /\ ledgerActive[g]}
ActiveOwnedBy(wallet) == {g \in Grants : GrantOwner(g) = wallet /\ ledgerActive[g]}

JoinedAsClaimed(list, active, failing) ==
  /\ \A g \in active \cap failing : \E e \in list : e.sharedAccess = g /\ e.file = Null
  /\ \A g \in active \ failing : \E e \in list : e.sharedAccess = g /\ e.file = GrantFile(g)
  /\ Cardinality(list) = Cardinality(active)

\* C7: when the file record fetch fails for some active grants, each of them
\* is in the result with file = null, the others keep their file, and the
\* result has one entry per active grant.
C7_FailedFileFetchYieldsNullFile ==
  /\ (last.fn = "getFilesSharedWithMe" /\ last.outcome = "scanned") =>
       JoinedAsClaimed(withMe, ActiveSharedWith(publicKey), last.failing)
  /\ (last.fn = "getFilesIShared" /\ last.outcome = "scanned") =>
       JoinedAsClaimed(iShared, ActiveOwnedBy(publicKey), last.failing)

\* The shared-by-me read has returned two grants, one with its file and one
\* whose file fetch failed.
C7_Witness ==
  /\ last.fn = "getFilesIShared" /\ last.outcome = "scanned"
  /\ \E e1, e2 \in iShared :
       /\ e1.file = Null /\ e1.sharedAccess \in last.failing
       /\ e2.file # Null /\ e2.sharedAccess \notin last.failing

\* C8: submitting or settling a transaction starts no read; a confirmation
\* arms exactly one timer, of 1500 ms for a privacy toggle and 1200 ms for a
\* revoke; a timer is taken away only by running, not before its delay has
\* elapsed, and running starts exactly one read.
SettleDelayOf(comp) == IF comp = "FileList" THEN 1500 ELSE 1200

C8_RefreshStep ==
  /\ txs' # txs => fetching' = fetching
  /\ (txs' # txs /\ last'.outcome = "confirmed") =>
       \E t \in [kind : {"settle", "refresh"}, target : FileKeys \cup RevokeKeys,
                 delay : {SettleDelayOf(component)}, elapsed : {0}] :
         timers' = Append(timers, t)
  /\ Len(timers') < Len(timers) =>
       \E i \in 1..Len(timers) :
         /\ timers' = Remove(timers, i)
         /\ timers[i].elapsed >= timers[i].delay
         /\ fetching' = fetching + 1

C8_RefreshOnlyAfterSettleDelay == [][C8_RefreshStep]_vars

\* A mutation was confirmed, its timer has run, and the read it started is
\* in flight.
C8_Witness ==
  /\ last.outcome = "confirmed"
  /\ timers = << >> /\ txs = << >>
  /\ fetching > 0 /\ loading

\* C9: once a component is unmounted, no later step changes its state.
C9_UnmountedStateIsFrozen ==
  [][~mounted => UNCHANGED <<files, loading, withMe, iShared, processingFiles, revokingKeys>>]_vars

\* C10: no error leaves the client functions: a failed transaction ends in
\* an error notification, and a failed scan in an empty list.
C10_NoErrorEscapes ==
  /\ fault = "none"
  /\ last.outcome \in {"AlreadyProcessed", "failed"} => toast.level = "error"
  /\ (last.fn = "getUserFiles" /\ last.outcome = "scan-failed") => files = {}
  /\ (last.fn = "getFilesSharedWithMe" /\ last.outcome = "scan-failed") => withMe = {}
  /\ (last.fn = "getFilesIShared" /\ last.outcome = "scan-failed") => iShared = {}

\* A revoke has just failed and its error notification is up.
C10_Witness ==
  /\ last = Handled("handleRevoke", FALSE, "failed")
  /\ toast = Toast("error", "Failed to revoke")

\* C11: without a wallet no hook function reaches the ledger: a mutating
\* function throws 'Wallet not connected' having sent no lookup and no
\* transaction, a list function returns [] having sent no scan, and no call
\* of a render without a wallet is ever waiting on the network.
C11_NoWalletNoLedgerContact ==
  /\ \A i \in 1..Len(calls) : calls[i].wallet # Null
  /\ (finished.wallet = Null /\ finished.fn \in MutatingOps) =>
       /\ finished.pc = "thrown" /\ finished.outcome = "Wallet not connected"
       /\ finished.issued = << >> /\ finished.queries = 0
  /\ (finished.wallet = Null /\ finished.fn \in ListOps) =>
       /\ finished.pc = "returned" /\ finished.value = {}
       /\ finished.issued = << >> /\ finished.queries = 0

\* createFile was called without a wallet and has thrown, with the ledger
\* holding no account yet.
C11_Witness ==
  /\ publicKey = Null /\ accounts = {}
  /\ finished.fn = "createFile" /\ finished.wallet = Null
  /\ finished.outcome = "Wallet not connected"

\* The hook calls in progress and the one that ended last.
CallsSeen == {calls[i] : i \in 1..Len(calls)} \cup {finished}

\* The position of an instruction among the transactions a call submitted
\* (0 when it submitted none of that name).
IssuedAt(c, instr) ==
  IF \E k \in 1..Len(c.issued) : c.issued[k].instr = instr
  THEN CHOOSE k \in 1..Len(c.issued) : c.issued[k].instr = instr
  ELSE 0

\* C12: a createFile call submits initialize only when the config was absent
\* at its lookup and createUserProfile only when the profile was, in the
\* order initialize, createUserProfile, createFile, each at most once; the
\* createFile transaction comes last and only after every transaction before
\* it was confirmed; a failed transaction is the call's last one.
C12_CreateFileSubmitsInOrder ==
  \A c \in CallsSeen :
    c.fn = "createFile" =>
      LET init == IssuedAt(c, "initialize")
          prof == IssuedAt(c, "createUserProfile")
          file == IssuedAt(c, "createFile")
      IN /\ \A k \in 1..Len(c.issued) :
              /\ c.issued[k].instr \in {"initialize", "createUserProfile", "createFile"}
              /\ \A j \in 1..Len(c.issued) : c.issued[j].instr = c.issued[k].instr => j = k
              /\ c.issued[k].state = "failed" => k = Len(c.issued) /\ c.pc = "thrown"
              /\ k < Len(c.issued) => c.issued[k].state = "confirmed"
         /\ init # 0 => ~c.sawConfig /\ init = 1
         /\ prof # 0 => ~c.sawProfile /\ prof = init + 1
         /\ file # 0 => /\ file = Len(c.issued)
                        /\ ~c.sawConfig => init # 0
         /\ (init # 0 /\ prof # 0 /\ file # 0) => init < prof /\ prof < file

\* A createFile call found neither account, and all three of its
\* transactions were confirmed in turn.
C12_Witness ==
  /\ finished.fn = "createFile" /\ finished.outcome = "ok"
  /\ Len(finished.issued) = 3
  /\ \A k \in 1..3 : finished.issued[k].state = "confirmed"
  /\ ledgerStatus["f1"] = "uploading" /\ "f1" \in accounts

\* The step in which call i of makePublic or makePrivate on file f ends.
VisibilityCallEnds(i, f) ==
  /\ i \in 1..Len(calls)
  /\ calls[i].fn \in {"makePublic", "makePrivate"}
  /\ calls[i].pc = "rpc"
  /\ FileOwner(f) = calls[i].wallet /\ FileName(f) = calls[i].fileName
  /\ calls' = Remove(calls, i)
  /\ finished'.fn = calls[i].fn /\ finished'.fileName = calls[i].fileName

\* C13: a makePublic on a file that is already public (as a confirmed
\* makePublic left it), and a makePrivate on one that is already private, is
\* never rejected by the ledger; when its transaction is executed the call
\* returns as a success and the ledger is left exactly as it was.
C13_RepeatedVisibilityStep ==
  \A i \in 1..Len(calls), f \in FileKeys \cap accounts :
    (VisibilityCallEnds(i, f) /\ ledgerPublic[f] = (calls[i].fn = "makePublic")) =>
      /\ finished'.outcome # "rejected"
      /\ finished'.outcome # "network" =>
           /\ finished'.pc = "returned" /\ finished'.outcome = "ok"
           /\ finished'.issued[1].noop
      /\ ledgerPublic'[f] = ledgerPublic[f]
      /\ UNCHANGED ledger

C14_AlreadyProcessedStep ==
  (txs' # txs /\ last' = Handled("executePrivacyToggle", FALSE, "AlreadyProcessed")) =>
    /\ \E t \in [kind : {"retry"}, target : FileKeys, delay : {AlreadyProcessedRetryMs},
                 elapsed : {0}] : timers' = Append(timers, t)
    /\ toast'.level # "error"

C14_AlreadyProcessedIsSuccessEquivalent == [][C14_AlreadyProcessedStep]_vars

\* A toggle has failed with AlreadyProcessed: the refresh is armed and the
\* error notification is up.
C14_Witness ==
  /\ last = Handled("executePrivacyToggle", FALSE, "AlreadyProcessed")
  /\ toast = Toast("error", "Transaction Already Processed")
  /\ \E i \in 1..Len(timers) : timers[i].kind = "retry"

\* ------------------------------------------------------------------ C15
\* The rows of one file in two file lists.
StatusRegresses(before, after) ==
  \E r \in before, s \in after :
    r.publicKey = s.publicKey /\ StatusRank(s.status) < StatusRank(r.status)

\* The file list changes only by being emptied or in the step that completes
\* a getUserFiles fetch, and then to records of the caller that the scan
\* returned.
C15_OnlyFetchWritesFiles ==
  files' # files =>
    \/ files' = {}
    \/ /\ fetching' = fetching - 1
       /\ \A s \in files' : /\ s.publicKey \in FileKeys \cap accounts
                            /\ FileOwner(s.publicKey) = Caller
                            /\ \E k \in 1..Len(Statuses) : s.status = Statuses[k]

\* C15: the status and isPublic values in the FileList state are written
\* only by a completed getUserFiles fetch, never by a client operation, and
\* the status shown for a file never moves back in the order uploading,
\* processing, active from one fetch to the next.
C15_StatusStep ==
  /\ C15_OnlyFetchWritesFiles
  /\ ~StatusRegresses(files, files')

C15_StatusFromFetchNeverRegresses == [][C15_StatusStep]_vars

\* The list shows a status of a later scan while the answer of an earlier
\* scan, with an earlier status of the same file, is still on its way.
C15_Witness ==
  /\ IsFileList
  /\ \E i \in 1..Len(served) : StatusRegresses(files, served[i].list)

\* The first half of C15 taken alone.
C15_FilesWrittenByFetchOnly == [][C15_OnlyFetchWritesFiles]_vars

CallEnds(i, fn) ==
  /\ i \in 1..Len(calls)
  /\ calls[i].fn = fn
  /\ calls' = Remove(calls, i)
  /\ finished'.fn = fn

\* The step in which a getFilesSharedWithMe whose scan succeeded returns.
SharedWithMeReturns ==
  /\ \E i \in 1..Len(calls) : CallEnds(i, "getFilesSharedWithMe")
  /\ finished'.outcome = "ok"

\* The grant account a revokeAccess transaction names is the one a
\* grantAccess of the same wallet, file name and grantee names.
RevokeTargetsGrantAccount(c) ==
  (c.fn = "revokeAccess" /\ c.issued # << >>) =>
    LET g == grantAccess([c EXCEPT !.fn = "grantAccess", !.pc = "start", !.issued = << >>])
    IN /\ g.issued # << >>
       /\ c.issued[1].sharedAccess = g.issued[1].sharedAccess
       /\ c.issued[1].fileRecord = g.issued[1].fileRecord

\* The grantee's list right after a grant: one entry of the file granted,
\* with the level granted (every parent record fetched).
GrantThenListed ==
  ( /\ finished.fn = "grantAccess" /\ finished.pc = "returned"
    /\ SharedWithMeReturns
    /\ finished'.wallet = finished.grantee
    /\ \A e \in finished'.value : e.file # Null ) =>
      \E e \in finished'.value :
        /\ FileName(e.file) = finished.fileName
        /\ e.accessLevel = finished.level
        /\ e.sharedAccess \in GrantAt(finished.issued[1].sharedAccess)
        /\ \A d \in finished'.value : FileName(d.file) = finished.fileName => d = e

\* A confirmed revokeAccess leaves the grant account on the ledger, its
\* active flag false.
RevokeDeactivates ==
  \A i \in 1..Len(calls) :
    (CallEnds(i, "revokeAccess") /\ finished'.pc = "returned") =>
      /\ GrantAt(calls[i].issued[1].sharedAccess) # {}
      /\ \A g \in GrantAt(calls[i].issued[1].sharedAccess) :
           g \in accounts' /\ ~ledgerActive'[g]

\* No getFilesSharedWithMe returns an entry of a deactivated grant, and a
\* deactivated grant stays on the ledger as it is until a grantAccess on it
\* is confirmed.
DeactivatedNotListed ==
  \A g \in Grants :
    (g \in accounts /\ ~ledgerActive[g]) =>
      /\ (\E i \in 1..Len(calls) : CallEnds(i, "getFilesSharedWithMe")) =>
           \A e \in finished'.value : e.sharedAccess # g
      /\ (g \notin accounts' \/ ledgerActive'[g]) =>
           \E i \in 1..Len(calls) :
             /\ CallEnds(i, "grantAccess")
             /\ g \in GrantAt(calls[i].issued[1].sharedAccess)

\* C17: revokeAccess(fileName, B) names the grant account that
\* grantAccess(fileName, B, ...) of the same owner names; the
\* getFilesSharedWithMe of B that follows a confirmed grant returns one entry
\* of that file with the level granted; a confirmed revokeAccess leaves the
\* account in place with its active flag false, and from then on no
\* getFilesSharedWithMe returns an entry of that grant.
C17_GrantRevokeStep ==
  /\ \A c \in CallsSeen : RevokeTargetsGrantAccount(c)
  /\ GrantThenListed
  /\ RevokeDeactivates
  /\ DeactivatedNotListed

C17_RevokeUndoesGrant == [][C17_GrantRevokeStep]_vars

\* The owner granted the other identity access to report.pdf and revoked it,
\* both confirmed; the grantee then listed what is shared with them and got
\* no entry, while the grant account is on the ledger, inactive.
C17_Witness ==
  /\ component = "Share"
  /\ finished.fn = "getFilesSharedWithMe" /\ finished.wallet = Other
  /\ finished.outcome = "ok" /\ finished.value = {}
  /\ "g1" \in accounts /\ ~ledgerActive["g1"]

\* ------------------------------------------------------------------ C18
\* The file records of the caller on the ledger.
CallerRecords == {f \in FileKeys \cap accounts : FileOwner(f) = Caller}

\* Every createFile, registerStorage and finalizeFile transaction of a call
\* names the record address derived from the call's wallet and file name.
UploadAddressesRecord(c) ==
  \A k \in 1..Len(c.issued) :
    c.issued[k].instr \in {"createFile", "registerStorage", "finalizeFile"} =>
      c.issued[k].fileRecord = getFileRecordPDA(c.wallet, Utf8(c.fileName))

\* The getUserFiles that follows a confirmed finalizeFile, its scan
\* succeeding: one record of that name, its locator set and its status
\* active; the only record when the owner has created no other file.
FinalizedThenListed ==
  ( /\ finished.fn = "finalizeFile" /\ finished.pc = "returned"
    /\ \E i \in 1..Len(calls) : CallEnds(i, "getUserFiles")
    /\ finished'.wallet = finished.wallet
    /\ finished'.outcome = "ok" ) =>
      \E r \in finished'.value :
        /\ r.fileName = finished.fileName
        /\ FilePDA(r.publicKey) = finished.issued[1].fileRecord
        /\ r.primaryStorage = Locator
        /\ r.status = "active"
        /\ \A s \in finished'.value : s.fileName = finished.fileName => s = r
        /\ Cardinality(CallerRecords) = 1 => finished'.value = {r}

\* A record gets its locator and its status only in this order: created as
\* uploading without a locator, processing once registerStorage is
\* confirmed, active once finalizeFile is.
UploadOrder ==
  \A f \in CallerRecords :
    /\ ledgerStatus[f] # "uploading" => ledgerLocator[f] = Locator
    /\ ledgerStatus'[f] # ledgerStatus[f] =>
         \E i \in 1..Len(calls) :
           /\ calls[i].pc = "rpc"
           /\ calls[i].issued[Len(calls[i].issued)].fileRecord = FilePDA(f)
           /\ \/ /\ calls[i].fn = "registerStorage"
                 /\ ledgerStatus[f] = "uploading" /\ ledgerStatus'[f] = "processing"
              \/ /\ calls[i].fn = "finalizeFile"
                 /\ ledgerStatus[f] = "processing" /\ ledgerStatus'[f] = "active"

\* C18: from an owner without files, createFile, registerStorage and
\* finalizeFile of one name, each confirmed before the next, name the same
\* record address derived from (owner, name), and the getUserFiles that
\* follows returns exactly one record, of that name, with the locator set and
\* status active.
C18_UploadStep ==
  /\ \A c \in CallsSeen : UploadAddressesRecord(c)
  /\ component = "Upload" => UploadOrder
  /\ FinalizedThenListed

C18_UploadEndsInOneActiveRecord == [][C18_UploadStep]_vars

\* The owner, who had no file, has created, registered and finalized
\* report.pdf and then listed their files: one record, active, with its
\* locator.
C18_Witness ==
  /\ component = "Upload"
  /\ finished.fn = "getUserFiles" /\ finished.wallet = Caller /\ finished.outcome = "ok"
  /\ finished.value = {[publicKey |-> "f1", fileName |-> "report.pdf", isPublic |-> FALSE,
                        status |-> "active", primaryStorage |-> Locator]}
  /\ CallerRecords = {"f1"}

\* ------------------------------------------------------------------ C19
\* C19: a getUserFiles of a connected caller whose scan succeeds returns
\* every FileRecord the ledger holds whose owner field is the caller, as the
\* ledger holds it, and no FileRecord of another owner.
C19_UserFilesStep ==
  ( /\ \E i \in 1..Len(calls) : CallEnds(i, "getUserFiles")
    /\ finished'.wallet # Null
    /\ finished'.outcome = "ok" ) =>
      /\ \A f \in FileKeys \cap accounts :
           FileOwner(f) = finished'.wallet =>
             \E r \in finished'.value :
               /\ r.publicKey = f /\ r.fileName = FileName(f)
               /\ r.isPublic = ledgerPublic[f] /\ r.status = ledgerStatus[f]
      /\ \A r \in finished'.value :
           r.publicKey \in accounts /\ FileOwner(r.publicKey) = finished'.wallet
      /\ Cardinality(finished'.value) =
           Cardinality({f \in FileKeys \cap accounts : FileOwner(f) = finished'.wallet})

C19_UserFilesAreTheCallersRecords == [][C19_UserFilesStep]_vars

\* The caller has listed their files on a ledger that also holds a record of
\* another owner: both of their records are returned, the other is not.
C19_Witness ==
  /\ InSession
  /\ finished.fn = "getUserFiles" /\ finished.wallet = Caller /\ finished.outcome = "ok"
  /\ {r.publicKey : r \in finished.value} = {"f1", "f2"}
  /\ "x1" \in accounts

\* ------------------------------------------------------------------ C20
\* A grantAccess or revokeAccess called with a grantee address that is no
\* key.
MalformedGrantee(c) == c.fn \in {"grantAccess", "revokeAccess"} /\ c.grantee = Malformed

\* C20: a grantAccess or revokeAccess called with a malformed grantee
\* address throws in the step that calls it, having submitted no transaction
\* and sent no request, and that step leaves the ledger's grants and file
\* records as they were.
C20_MalformedGranteeStep ==
  /\ \A c \in CallsSeen : MalformedGrantee(c) =>
       c.pc = "thrown" /\ c.issued = << >> /\ c.queries = 0
  /\ (MalformedGrantee(finished') /\ finished' # finished) =>
       /\ calls' = calls
       /\ ledger' = ledger

C20_MalformedGranteeFailsBeforeSubmission == [][C20_MalformedGranteeStep]_vars

\* The owner, connected, called revokeAccess with a malformed grantee on a
\* ledger that holds the grant of report.pdf: the call threw on the address
\* and the grant is still active.
C20_Witness ==
  /\ component = "Share"
  /\ finished.fn = "revokeAccess" /\ finished.wallet = Caller
  /\ finished.grantee = Malformed /\ finished.fileName = "report.pdf"
  /\ finished.pc = "thrown" /\ finished.outcome = "Invalid public key input"
  /\ "g1" \in accounts /\ ledgerActive["g1"]

\* ------------------------------------------------------------------ C21
\* The step in which the lookup of createUserProfile call i answers.
ProfileLookupAnswers(i) ==
  /\ i \in 1..Len(calls)
  /\ calls[i].fn = "createUserProfile"
  /\ calls[i].pc = "getAccountInfo"
  /\ \/ calls' = Remove(calls, i)
     \/ Len(calls') = Len(calls) /\ calls'[i] # calls[i]

\* The lookup found the account: the call returns 'already-initialized'
\* without a transaction.  It found none: the call submits one
\* createUserProfile transaction.
ProfileLookupDecides ==
  \A i \in 1..Len(calls) :
    ProfileLookupAnswers(i) =>
      \/ /\ ProfileAccount \in accounts
         /\ CallEnds(i, "createUserProfile")
         /\ finished'.pc = "returned" /\ finished'.outcome = "already-initialized"
         /\ finished'.issued = << >>
      \/ /\ ProfileAccount \notin accounts
         /\ calls' = [calls EXCEPT ![i] = Rpc(calls[i], Tx("createUserProfile", NoAddress,
                                                          NoAddress, "read", NoExpiry))]
      \/ /\ CallEnds(i, "createUserProfile")
         /\ finished'.pc = "thrown" /\ finished'.issued = << >>

\* A confirmed creation puts the profile account on the ledger, and the
\* account stays there.
ProfileStays ==
  /\ ProfileAccount \in accounts => ProfileAccount \in accounts'
  /\ \A i \in 1..Len(calls) :
       (CallEnds(i, "createUserProfile") /\ finished'.outcome = "ok") =>
         ProfileAccount \in accounts'

\* C21: createUserProfile submits its transaction only when its lookup finds
\* no profile account; when the account exists it returns
\* 'already-initialized' and submits nothing, and once a creation is
\* confirmed the account is there for every later lookup, so a call made
\* after it submits nothing.
C21_ProfileStep ==
  /\ \A c \in CallsSeen : c.fn = "createUserProfile" => Len(c.issued) <= 1
  /\ ProfileLookupDecides
  /\ ProfileStays

C21_ProfileCreatedOnce == [][C21_ProfileStep]_vars

\* On a ledger that started without a profile, a createUserProfile has
\* returned 'already-initialized' without a transaction.
C21_Witness ==
  /\ component = "Upload"
  /\ finished.fn = "createUserProfile" /\ finished.pc = "returned"
  /\ finished.outcome = "already-initialized" /\ finished.issued = << >>
  /\ ProfileAccount \in accounts

\* ------------------------------------------------------------------ C22
\* The calls, in progress or the last one finished, that have submitted the
\* instruction and have not seen it fail.
Submitters(instr) ==
  LET live(c) == \E k \in 1..Len(c.issued) :
                   c.issued[k].instr = instr /\ c.issued[k].state # "failed"
  IN Cardinality({i \in 1..Len(calls) : live(calls[i])}) + (IF live(finished) THEN 1 ELSE 0)

\* A createFile whose initialize or createUserProfile transaction the ledger
\* rejected: the account was there by the time the transaction arrived.
LostTheRace(c) ==
  /\ c.fn = "createFile" /\ c.pc = "thrown" /\ c.outcome = "rejected"
  /\ c.issued # << >>
  /\ c.issued[Len(c.issued)].instr \in {"initialize", "createUserProfile"}

\* C22: however concurrent createFile calls started without the global
\* config and the caller's profile interleave, at most one initialize and at
\* most one createUserProfile transaction are submitted, and no createFile
\* fails because the other call created the account between its lookup and
\* its own creation transaction.
C22_LazyAccountsCreatedOnce ==
  /\ Submitters("initialize") <= 1
  /\ Submitters("createUserProfile") <= 1
  /\ ~LostTheRace(finished)

\* Two createFile calls looked up the config while it was absent; one
\* initialize was confirmed, and the other call failed on its own.
C22_Witness ==
  /\ component = "Upload"
  /\ LostTheRace(finished)
  /\ finished.issued[Len(finished.issued)].instr = "initialize"
  /\ ~finished.sawConfig
  /\ ConfigAccount \in accounts

\* ------------------------------------------------------------------ C23
\* The step in which the answer at position i arrives and fetchFiles puts it
\* in the list.
AnswerApplied(i) ==
  /\ i \in 1..Len(served)
  /\ fetching' = fetching - 1
  /\ files' = served[i].list
  /\ served' = Remove(Overtaken(served, i), i)

\* C23: the file list of FileList is the result of the fetch started last:
\* the answer of a fetch that the answer of a later-started fetch has
\* overtaken is never put in the list, and the list holds no records while no
\* identity is connected.
C23_LatestFetchStep ==
  /\ \A i \in 1..Len(served) : served[i].overtaken => ~AnswerApplied(i)
  /\ (IsFileList /\ publicKey = Null) => files = {}

C23_LatestFetchWins == [][C23_LatestFetchStep]_vars

\* The list shows the answer of the fetch started last while the answer of
\* an earlier fetch, with other contents, is still on its way.
C23_Witness ==
  /\ IsFileList /\ mounted /\ publicKey = Caller
  /\ fetching = 1 /\ Len(served) = 1
  /\ served[1].overtaken
  /\ served[1].list # files
  /\ files = getUserFiles(Caller, TRUE).list

\* ------------------------------------------------------------------ C24
\* C24: from the confirmation of a privacy toggle of a file until the
\* refresh after the settle delay is started, the file is in processingFiles,
\* no dialog for it is open or opened and no transaction for it is in flight
\* or submitted; it leaves the set only in the step in which its timer, the
\* full delay elapsed, starts the refresh.
C24_SettleStep ==
  \A f \in FileKeys :
    SettleTimers(f) # {} =>
      /\ f \in processingFiles
      /\ confirmDialog.file # f /\ confirmDialog'.file # f
      /\ \A k \in 1..Len(txs) : txs[k].target # f
      /\ \A k \in 1..Len(txs') : txs'[k].target # f
      /\ f \notin processingFiles' =>
           \E i \in SettleTimers(f) :
             /\ timers[i].elapsed >= PrivacySettleMs
             /\ timers' = Remove(timers, i)
             /\ fetching' = fetching + 1

RevokedStillListed ==
  {e \in iShared : e.file # Null /\ ~ledgerActive[e.sharedAccess]}

\* C25: from the confirmation of a revokeAccess for a (fileName, grantee) key
\* until the refreshed shared-by-me list is in place, no second revokeAccess
\* transaction for that key is submitted.
C25_RevokedKeyGuardedUntilRefresh ==
  IsSharedFiles =>
    \A e \in RevokedStillListed : RevokesInFlight(RevokeKey(e)) = {}

\* The revoke of an entry was confirmed; with its refresh timer still
\* waiting and the entry still listed, a second click has submitted
\* revokeAccess for the same key.
C25_Witness ==
  /\ IsSharedFiles
  /\ last = Handled("handleRevoke", FALSE, "submitted")
  /\ \E e \in RevokedStillListed :
       /\ RevokesInFlight(RevokeKey(e)) # {}
       /\ \E i \in 1..Len(timers) : timers[i].kind = "refresh" /\ timers[i].target = RevokeKey(e)

\* ------------------------------------------------------------------- C26
\* The files a step takes out of the processing set.
RemovedFromProcessing == processingFiles \ processingFiles'

\* handlePrivacyToggle on a row turns the request away exactly when that row's
\* own file is pending, whatever else is pending.
RejectionIsPerTarget ==
  \A row \in files :
    HandlePrivacyToggle(row) =>
      (last'.outcome = "AlreadyInProgress" <=> row.publicKey \in processingFiles)

\* A step removes at most one file from the processing set, and only the file
\* whose toggle just completed: its transaction failed, or its settle timer
\* ran after the transaction succeeded.
RemovalIsPerTarget ==
  /\ Cardinality(RemovedFromProcessing) <= 1
  /\ \A f \in RemovedFromProcessing :
       \/ TogglesInFlight(f) # {} /\ Len(txs') < Len(txs)
       \/ SettleTimers(f) # {} /\ Len(timers') < Len(timers)
  /\ \A i \in 1..Len(txs) :
       /\ ToggleConfirmed(i) => processingFiles' = processingFiles
       /\ \A err \in {"AlreadyProcessed", "failed"} :
            ToggleFailed(i, err) => processingFiles' = processingFiles \ {txs[i].target}
  /\ \A i \in 1..Len(timers) :
       (FileTimerFires(i) /\ timers[i].kind = "settle") =>
         processingFiles' = processingFiles \ {timers[i].target}

C26_PendingStep == IsFileList => (RejectionIsPerTarget /\ RemovalIsPerTarget)

\* C26: the pending set of FileList is per target.  A toggle pending on one
\* file never makes handlePrivacyToggle turn away a request for another file,
\* and the completion of a toggle, by failure or by the settle timer after a
\* success, takes only its own file out of the set and leaves the rest.
C26_PendingSetIsPerTarget == [][C26_PendingStep]_vars

\* A toggle on one file was confirmed and has settled while another file's
\* toggle is still in flight and still pending, and handlePrivacyToggle has
\* just opened the dialog for a file that is not pending.
C26_Witness ==
  /\ IsFileList
  /\ last = Handled("handlePrivacyToggle", FALSE, "confirm")
  /\ confirmDialog.file # Null /\ confirmDialog.file \notin processingFiles
  /\ toast = Toast("success", "Success!")
  /\ timers = <<>>
  /\ \E k \in 1..Len(txs) : txs[k].target \in processingFiles

====
